---- MODULE Spec2Model ----
(***************************************************************************)
(* cps::future<T> (include/cps/future.h): the per-future state machine,    *)
(* the registration/dispatch engine (call_when_ready, apply_state), the    *)
(* filtered registrations (on_ready/on_done/on_fail/on_cancel), the        *)
(* state-guarded reads and the chaining operator then().                   *)
(*                                                                         *)
(* Execution contexts are threads with a call stack of frames.  A step of  *)
(* a thread is one of: the whole of a critical section's prefix up to the  *)
(* last write that lock-free readers can observe, one lock-free read of    *)
(* state_, or one call/return.  state_ is atomic and read without the      *)
(* mutex; value_, ex_ are written inside the mutex and read without it.    *)
(***************************************************************************)
EXTENDS Naturals, Sequences, FiniteSets

\* ---------------------------------------------------------------- bounds
\* Top-level API calls the execution contexts start in one run, all together:
\* in the basic program (every context calls the API of one future) and in the
\* chain program (S.then, and the owners of S, G and O resolving them).
MaxCalls == 3
MaxChainCalls == 4
\* ... in the combinator program (one needs_all/needs_any call, the owners of
\* its inputs resolving them, the holder of the result cancelling it) and in
\* the re-entrant program (continuations that call back into their future).
MaxCombCalls == 4
MaxReentCalls == 3

\* ------------------------------------------------------------ the universe
Thread == {"t1", "t2", "t3"}
\* S: the future the calls act on (the source of then); O: the future then()
\* creates and returns; G: the future onSuccess/onFailure returns.
\* For needs_all/needs_any: S and G are the inputs, O is the result, and R is
\* the `remainder` future the variadic overloads build from rest... .
Fut == {"S", "G", "O", "R"}
\* The input futures a combinator call can be given, in argument order.
Inputs == <<"S", "G">>
\* needs_all() and needs_all(vector) resolve their future<int> with 0.
Zero == "0"
Val == {"v1", "v2"}
Reason == {"r1", "r2"}
\* Exception classes a user handler can raise, as the catch clauses of then()
\* tell them apart: cps::future_exception, std::runtime_error, and any other
\* std::exception (std::logic_error and its subclasses, std::bad_alloc, ...).
ExKind == {"future_exception", "runtime_error", "other"}
HandlerMsg == "bad"

CId == Thread \X (1..(MaxCalls + MaxChainCalls))
NoId == <<"none", 0>>

\* enum class state { pending, done, failed, cancelled }
state_type == {"pending", "done", "failed", "cancelled"}

\* A continuation (std::function<void(future<T>&)>) as data.
\*   k  : which lambda it is    h : the code it wraps
\*   t  : the future its capture list holds    id : the registration it is
NoC == [k |-> "none", h |-> "none", t |-> "none", id |-> NoId]
Closure(k, h, t, id) == [k |-> k, h |-> h, t |-> t, id |-> id]

\* future_exception: reason_ and component_ (ex_ is left empty by the ctor).
NoEx == [reason |-> "none", component |-> "none"]
future_exception(reason, component) == [reason |-> reason, component |-> component]

VARIABLES
    scen,      \* which program runs: "basic" (calls on S) or "chain" (S.then)
    state_,    \* [Fut -> state_type]            future::state_
    value_,    \* [Fut -> Val \cup {"none"}]     future::value_
    ex_,       \* [Fut -> future_exception]      future::ex_
    tasks_,    \* [Fut -> Seq(Closure)]          future::tasks_
    mutex_,    \* [Fut -> Thread \cup {"free"}]  future::mutex_
    resolved_, \* [Fut -> Nat]                   future::resolved_
    now,       \* the clock resolved_ is stamped from
    stack,     \* [Thread -> Seq(Frame)]         each context's call stack
    calls,     \* [Thread -> Nat]                top-level calls started
    crashed,   \* [Thread -> exception that left its top-level call]
    chain,     \* the then() call: its arguments and what its handler did
    first,     \* [Fut -> the first resolving call to enter the mutex]
    ext,       \* [Fut -> Nat] resolving calls made from outside the library
    hist,      \* [CId -> what happened to that registration]
    rd,        \* the last value()/failure_reason() call and its result
    comb       \* the needs_all/needs_any call: its arguments, its counter

vars == <<scen, state_, value_, ex_, tasks_, mutex_, resolved_, now, stack,
          calls, crashed, chain, first, ext, hist, rd, comb>>

futvars == <<state_, value_, ex_, tasks_, mutex_, resolved_, now>>

\* ------------------------------------------------------------------ frames
NoFrame == [op |-> "none", f |-> "none", c |-> NoC, s |-> "none", arg |-> "none",
            comp |-> "none", pc |-> "none", pend |-> <<>>, inl |-> FALSE]
\* apply_state(code, s) on f; arg/comp are what the lambda `code` captured.
ApplyFrame(f, s, arg, comp) ==
    [NoFrame EXCEPT !.op = "apply", !.f = f, !.s = s, !.arg = arg,
                    !.comp = comp, !.pc = "lock"]
\* call_when_ready(c) on f.
CwrFrame(f, c) == [NoFrame EXCEPT !.op = "cwr", !.f = f, !.c = c, !.pc = "check"]
\* c(*f): one invocation of a continuation; inl says the registering call made it.
InvFrame(f, c, inl) ==
    [NoFrame EXCEPT !.op = "inv", !.f = f, !.c = c, !.pc = "start", !.inl = inl]

Top(t) == stack[t][Len(stack[t])]
Popped(t) == SubSeq(stack[t], 1, Len(stack[t]) - 1)
\* the stack with its top frame replaced by fr
Replaced(t, fr) == Append(Popped(t), fr)
\* the stack with the top frame's pc advanced and a callee pushed
Calling(t, pc, fr) == Append(Replaced(t, [Top(t) EXCEPT !.pc = pc]), fr)

Running(t) == stack[t] # <<>>
\* The exception that left a context's top-level call, and whether that call
\* was a resolving one (done/fail/cancel) or a registering one.
NoCrash == [kind |-> "none", msg |-> "none", call |-> "none"]
Started == calls["t1"] + calls["t2"] + calls["t3"]
\* The contexts of the basic program are interchangeable: they are numbered in
\* the order of their first calls.
InTurn(t) ==
    \/ scen \notin {"basic", "reent"}
    \/ t = "t1"
    \/ t = "t2" /\ calls["t1"] > 0
    \/ t = "t3" /\ calls["t2"] > 0
Budget ==
    CASE scen = "basic" -> MaxCalls
      [] scen = "chain" -> MaxChainCalls
      [] scen = "comb" -> MaxCombCalls
      [] scen = "reent" -> MaxReentCalls
Idle(t) == stack[t] = <<>> /\ crashed[t] = NoCrash /\ Started < Budget /\ InTurn(t)

\* k: on_ready/on_done/on_fail/on_cancel; at: state_ when call_when_ready looked;
\* path: queued or inline; nb, ni: invocations of the continuation by a
\* resolving call's batch and by the registering call; carg: the future it was
\* invoked on; hn, harg: runs of the user's handler and its argument; pos: the
\* place in tasks_ the push_back gave it.
NoHist == [k |-> "none", at |-> "none", path |-> "none", nb |-> 0, ni |-> 0,
           carg |-> "none", hn |-> 0, harg |-> "none", pos |-> 0]
NoFirst == [s |-> "none", arg |-> "none", by |-> "none"]
NoRd == [op |-> "none", res |-> "none", eff |-> NoFirst]
\* seen: the state of the outer future as line 275 read it.
NoChain == [called |-> FALSE, ret |-> FALSE, err |-> FALSE, ok_calls |-> 0,
            err_calls |-> 0, inner |-> FALSE, thrown |-> "none", ran |-> "no",
            seen |-> "none"]
\* kind: needs_all or needs_any; form: which overload; n: how many inputs;
\* pending: the shared std::atomic<int> of lines 531 and 552.
NoComb == [called |-> FALSE, ret |-> FALSE, kind |-> "none", form |-> "none",
           n |-> 0, pending |-> 0]

\* future(label): state_(state::pending), no tasks; value_ and ex_ hold nothing
\* readable (value() and failure() refuse to read them while state_ says so).
Start(programs) ==
    /\ scen \in programs
    /\ state_ = [f \in Fut |-> "pending"]
    /\ value_ = [f \in Fut |-> "none"]
    /\ ex_ = [f \in Fut |-> NoEx]
    /\ tasks_ = [f \in Fut |-> <<>>]
    /\ mutex_ = [f \in Fut |-> "free"]
    /\ resolved_ = [f \in Fut |-> 0]
    /\ now = 1
    /\ stack = [t \in Thread |-> <<>>]
    /\ calls = [t \in Thread |-> 0]
    /\ crashed = [t \in Thread |-> NoCrash]
    /\ chain = NoChain
    /\ first = [f \in Fut |-> NoFirst]
    /\ ext = [f \in Fut |-> 0]
    /\ hist = [c \in CId |-> NoHist]
    /\ rd = NoRd
    /\ comb = NoComb

Init == Start({"basic", "chain"})

\* ------------------------------------------------------- who calls what
\* basic: every context calls the API of S.  chain: t1 owns the source S (it
\* calls S.then and resolves or registers on S), t2 owns the inner future G the
\* handlers return, t3 holds the outer future O once then() has returned it.
Allowed(t, f) ==
    \/ scen = "basic" /\ f = "S"
    \/ scen = "chain" /\ t = "t1" /\ f = "S"
    \/ scen = "chain" /\ t = "t2" /\ f = "G"
    \/ scen = "chain" /\ t = "t3" /\ f = "O" /\ chain.ret
    \/ scen = "comb" /\ t = "t1" /\ f = "S" /\ ext["S"] = 0
    \/ scen = "comb" /\ t = "t2" /\ f = "G" /\ ext["G"] = 0
    \/ scen = "comb" /\ t = "t3" /\ f = "O" /\ comb.ret /\ ext["O"] = 0
    \/ scen = "reent" /\ f = "S"

\* The payloads a context passes.  The code never looks into a value or a
\* reason, so in the chain program each owner passes its own: what arrives at
\* the outer future then tells where it came from.
Supplies(t, f, x) ==
    \/ scen = "basic"
    \/ scen = "chain" /\ f \in {"S", "O"} /\ x \in {"v1", "r1"}
    \/ scen = "chain" /\ f = "G" /\ x \in {"v2", "r2"}
    \/ scen = "comb" /\ f \in {"S", "G"} /\ x \in {"v1", "r1"}
    \/ scen = "reent" /\ x \in {"v1", "r1"}

\* then() has returned O to its caller once its call_when_ready has: at once
\* when the handler was queued, else when the inline invocation at the bottom
\* of the caller's stack is over.
Returned(t, new, ch) ==
    IF new = <<>> /\ stack[t] # <<>> /\ stack[t][1].c.k = "then" /\ stack[t][1].inl
    THEN [ch EXCEPT !.ret = TRUE] ELSE ch

\* A step of thread t that leaves its stack as new; ch is chain as the step
\* leaves it.
Step(t, new, ch) ==
    /\ stack' = [stack EXCEPT ![t] = new]
    /\ chain' = Returned(t, new, ch)

\* Stack unwinding for `throw kind(msg)`: frames are left until one is inside
\* the try block of then()'s handler and a catch clause matches (lines 304-309);
\* the clause calls f->fail(what).  <<>> when nothing catches.
RECURSIVE Unwind(_, _, _)
Unwind(stk, kind, msg) ==
    IF stk = <<>> THEN <<>>
    ELSE LET fr == stk[Len(stk)]
             below == SubSeq(stk, 1, Len(stk) - 1)
         IN IF /\ fr.op = "inv" /\ fr.c.k = "then" /\ fr.pc # "caught"
               /\ kind \in {"future_exception", "runtime_error"}
            THEN below \o << [fr EXCEPT !.pc = "caught"],
                             ApplyFrame(fr.c.t, "failed", msg, "unknown") >>
            ELSE Unwind(below, kind, msg)

Raise(t, kind, msg, ch) ==
    LET u == Unwind(stack[t], kind, msg)
    IN /\ stack' = [stack EXCEPT ![t] = u]
       /\ chain' = ch
       /\ crashed' = IF u = <<>>
                     THEN [crashed EXCEPT ![t] =
                             [kind |-> kind, msg |-> msg,
                              call |-> IF stack[t][1].inl THEN "register" ELSE "resolve"]]
                     ELSE crashed

\* ------------------------------------------------------ state-guarded reads
is_ready(f) == state_[f] # "pending"
is_done(f) == state_[f] = "done"
is_failed(f) == state_[f] = "failed"
is_cancelled(f) == state_[f] = "cancelled"

\* What the first resolving call made of f, once state_ shows a resolution.
Effective(f) == IF is_ready(f) THEN first[f] ELSE NoFirst

\* T value() const: throws std::runtime_error("future is not complete") unless
\* state_ == done.
ValueThrows(f) == state_[f] # "done"
ValueOf(f) == IF ValueThrows(f) THEN "future is not complete" ELSE value_[f]
\* const std::string &failure_reason() const: throws "future is not failed"
\* unless state_ == failed (failure() has the same guard and returns the record
\* reason() is read from).
FailureThrows(f) == state_[f] # "failed"
FailureReasonOf(f) == IF FailureThrows(f) THEN "future is not failed" ELSE ex_[f].reason

\* A context calls S.value() and keeps what it got (the value or the error).
value(t, f) ==
    /\ scen = "basic" /\ Allowed(t, f)
    /\ Idle(t)
    /\ calls' = [calls EXCEPT ![t] = @ + 1]
    /\ rd' = [op |-> "value", res |-> ValueOf(f), eff |-> Effective(f)]
    /\ UNCHANGED <<scen, comb, futvars, stack, crashed, chain, first, ext, hist>>

failure_reason(t, f) ==
    /\ scen = "basic" /\ Allowed(t, f)
    /\ Idle(t)
    /\ calls' = [calls EXCEPT ![t] = @ + 1]
    /\ rd' = [op |-> "failure_reason", res |-> FailureReasonOf(f), eff |-> Effective(f)]
    /\ UNCHANGED <<scen, comb, futvars, stack, crashed, chain, first, ext, hist>>

\* ---------------------------------------------------------- apply_state
\* Lines 433-434: take the mutex and run code(*this), the lambda of done(),
\* fail() or cancel().  There is no test of state_ before it.
CodeValue(fr) == IF fr.s = "done" THEN fr.arg ELSE value_[fr.f]
CodeEx(fr) == IF fr.s = "failed" THEN future_exception(fr.arg, fr.comp) ELSE ex_[fr.f]

\* Thread t enters the critical section of apply_state for frame fr, which
\* sits on the frames `below`.
Enter(t, fr, below) ==
    /\ mutex_[fr.f] = "free"
    /\ mutex_' = [mutex_ EXCEPT ![fr.f] = t]
    /\ value_' = [value_ EXCEPT ![fr.f] = CodeValue(fr)]
    /\ ex_' = [ex_ EXCEPT ![fr.f] = CodeEx(fr)]
    /\ first' = IF first[fr.f] = NoFirst
                THEN [first EXCEPT ![fr.f] =
                        [s |-> fr.s, arg |-> fr.arg,
                         by |-> IF below = <<>> THEN "ext" ELSE "int"]]
                ELSE first
    /\ stack' = [stack EXCEPT ![t] = Append(below, [fr EXCEPT !.pc = "set"])]
    /\ UNCHANGED <<scen, comb, state_, tasks_, resolved_, now, crashed, chain, hist, rd>>

\* A resolving call made from outside: the call and its entry into the
\* critical section (a context waiting for the mutex has done nothing yet).
Resolve(t, fr) ==
    /\ Allowed(t, fr.f) /\ Idle(t)
    /\ Enter(t, fr, <<>>)
    /\ calls' = [calls EXCEPT ![t] = @ + 1]
    /\ ext' = [ext EXCEPT ![fr.f] = @ + 1]

\* future::done(v): apply_state([&v](f){ f.value_ = v; }, state::done)
done(t, f, v) == Supplies(t, f, v) /\ Resolve(t, ApplyFrame(f, "done", v, "none"))
\* future::fail(ex, component = "unknown")
fail(t, f, r) == Supplies(t, f, r) /\ Resolve(t, ApplyFrame(f, "failed", r, "unknown"))
\* future::cancel(): apply_state([](f){}, state::cancelled)
cancel(t, f) == Resolve(t, ApplyFrame(f, "cancelled", "none", "none"))

\* The same entry for a resolving call a continuation makes.
apply_state_lock(t) ==
    /\ Running(t) /\ Top(t).op = "apply" /\ Top(t).pc = "lock"
    /\ Enter(t, Top(t), Popped(t))
    /\ UNCHANGED <<calls, ext>>

\* Lines 435-441: pending = move(tasks_); tasks_.clear(); resolved_ = now();
\* state_ = s; the guard releases the mutex.  With nothing pending the loop of
\* lines 442-444 is empty and the call returns.
\* The lock_guard's scope ends at line 441, before the loop: the mutex is free.
\* The guard's scope stretched over the loop.
StillLocked(t) == t
Unlocked(t) == "free"
\* tasks_ left as it was: the moved-from queue not cleared.
LeftUncleared(f) == tasks_[f]
\* The batch taken back to front.
DrainedReversed(f) == [i \in 1..Len(tasks_[f]) |-> tasks_[f][Len(tasks_[f]) + 1 - i]]
Drained(f) == tasks_[f]
Left(f) == <<>>

apply_state_set(t) ==
    /\ Running(t) /\ Top(t).op = "apply" /\ Top(t).pc = "set"
    /\ LET fr == Top(t)
       IN /\ mutex_[fr.f] = t
          /\ tasks_' = [tasks_ EXCEPT ![fr.f] = Left(fr.f)]
          /\ resolved_' = [resolved_ EXCEPT ![fr.f] = now]
          /\ now' = now + 1
          /\ state_' = [state_ EXCEPT ![fr.f] = fr.s]
          /\ mutex_' = [mutex_ EXCEPT ![fr.f] = Unlocked(t)]
          /\ IF Drained(fr.f) = <<>>
             THEN Step(t, Popped(t), chain)
             ELSE Step(t, Replaced(t, [fr EXCEPT !.pc = "run", !.pend = Drained(fr.f)]), chain)
    /\ UNCHANGED <<scen, comb, value_, ex_, calls, crashed, first, ext, hist, rd>>

\* What is recorded of the registration a continuation belongs to: how it was
\* registered (queued or inline), how often a batch or a registering call
\* invoked it, and, for on_ready, whose continuation is the user's code itself
\* (line 138), the run of that code with the future as argument.
Counted(c, how, f) ==
    IF c.id \in CId
    THEN [hist EXCEPT ![c.id].k = c.k,
                      ![c.id].nb = IF how = "batch" THEN @ + 1 ELSE @,
                      ![c.id].ni = IF how = "inline" THEN @ + 1 ELSE @,
                      ![c.id].path = IF how = "batch" THEN @ ELSE how,
                      ![c.id].at = IF how = "batch" THEN @ ELSE state_[f],
                      ![c.id].carg = IF how = "queued" THEN @ ELSE f,
                      ![c.id].hn = IF how # "queued" /\ c.k = "ready" THEN @ + 1 ELSE @,
                      ![c.id].harg = IF how # "queued" /\ c.k = "ready" THEN f ELSE @,
                      ![c.id].pos = IF how = "queued" THEN Len(tasks_[f]) + 1 ELSE @]
    ELSE hist

\* The frames of thread t after it invoked continuation c on f above `below`:
\* the user's on_ready code runs to its end within the step (it touches no
\* future); every other continuation starts with a read of state_.
Invoked(below, f, c, inl) ==
    IF c.k = "ready" THEN below ELSE Append(below, InvFrame(f, c, inl))

\* Lines 442-445: for(auto &v : pending) v(*this); one iteration.  After the
\* last one apply_state only returns, so its frame is left.
apply_state_run(t) ==
    /\ Running(t) /\ Top(t).op = "apply" /\ Top(t).pc = "run"
    /\ LET fr == Top(t)
           c == Head(fr.pend)
           below == IF Tail(fr.pend) = <<>> THEN Popped(t)
                    ELSE Replaced(t, [fr EXCEPT !.pend = Tail(fr.pend)])
       IN /\ Step(t, Invoked(below, fr.f, c, FALSE), chain)
          /\ hist' = Counted(c, "batch", fr.f)
    /\ UNCHANGED <<scen, comb, futvars, calls, crashed, first, ext, rd>>

\* ------------------------------------------------------ call_when_ready
\* Lines 392-401: under the mutex, ready = state_ != pending and the push; the
\* call of code(*this) comes after the guard's scope.
\* ready taken to mean done.
ReadyWhenDone(f) == state_[f] = "done"
Ready(f) == state_[f] # "pending"

\* Thread t runs call_when_ready(c) on f above the frames `below`.
Registering(t, f, c, below, ch) ==
    /\ mutex_[f] = "free"
    /\ IF Ready(f)
       THEN /\ stack' = [stack EXCEPT ![t] = Invoked(below, f, c, TRUE)]
            /\ chain' = IF c.k = "ready" THEN Returned(t, below, ch) ELSE ch
            /\ hist' = Counted(c, "inline", f)
            /\ UNCHANGED tasks_
       ELSE /\ tasks_' = [tasks_ EXCEPT ![f] = Append(@, c)]
            /\ hist' = Counted(c, "queued", f)
            /\ stack' = [stack EXCEPT ![t] = below]
            /\ chain' = IF below = <<>> /\ c.k = "then" THEN [ch EXCEPT !.ret = TRUE]
                        ELSE Returned(t, below, ch)
    /\ UNCHANGED <<scen, comb, state_, value_, ex_, mutex_, resolved_, now, crashed, first, ext, rd>>

\* A call_when_ready a continuation makes (then()'s wiring).
call_when_ready(t) ==
    /\ Running(t) /\ Top(t).op = "cwr"
    /\ Registering(t, Top(t).f, Top(t).c, Popped(t), chain)
    /\ UNCHANGED calls

\* --------------------------------------------------- filtered registration
\* on_ready(code) = call_when_ready(code); on_done/on_fail/on_cancel wrap the
\* handler in a lambda that tests the state first.  In the chain program the
\* source's owner registers plain on_ready continuations beside then().
Register(t, f, k) ==
    LET id == <<t, calls[t] + 1>>
        c == Closure(k, "user", "none", id)
    IN /\ Allowed(t, f) /\ f = "S" /\ Idle(t)
       /\ scen = "chain" => k = "ready"
       /\ Registering(t, f, c, <<>>, chain)
       /\ calls' = [calls EXCEPT ![t] = @ + 1]

on_ready(t, f) == Register(t, f, "ready")
on_done(t, f) == Register(t, f, "on_done")
on_fail(t, f) == Register(t, f, "on_fail")
on_cancel(t, f) == Register(t, f, "on_cancel")

\* ------------------------------------------------ invoking a continuation
\* The user's code ran with argument a.
Handled(c, a) ==
    IF c.id \in CId THEN [hist EXCEPT ![c.id].hn = @ + 1, ![c.id].harg = a] ELSE hist

\* The test each filtering lambda makes first: if(f.is_done()) ... (lines 146,
\* 156, 165, 174, 183).
Passes(k, f) ==
    CASE k = "on_done" -> is_done(f)
      [] k = "on_fail" -> is_failed(f)
      [] k = "on_cancel" -> is_cancelled(f)

filter_check(t) ==
    /\ Running(t) /\ Top(t).op = "inv" /\ Top(t).pc = "start"
    /\ Top(t).c.k \in {"on_done", "on_fail", "on_cancel"}
    /\ IF Passes(Top(t).c.k, Top(t).f)
       THEN Step(t, Replaced(t, [Top(t) EXCEPT !.pc = "call"]), chain)
       ELSE Step(t, Popped(t), chain)
    /\ UNCHANGED <<scen, comb, futvars, calls, crashed, first, ext, hist, rd>>

\* What the lambda hands to the code it wraps: f.value(), f.failure_reason(),
\* or the future itself (nothing, for the on_cancel overload without argument).
Argument(k, f) ==
    CASE k = "on_done" -> ValueOf(f)
      [] k = "on_fail" -> FailureReasonOf(f)
      [] k = "on_cancel" -> f

ArgumentThrows(k, f) ==
    \/ k = "on_done" /\ ValueThrows(f)
    \/ k = "on_fail" /\ FailureThrows(f)

\* The frame the wrapped code of then()'s wiring lambdas pushes (lines 280-284):
\* f->done(v), f->fail(msg), f->fail("cancelled"), inner->cancel().
\* The inner future's cancellation passed on as a cancellation of the outer.
WiredCancelUp(c, a) ==
    CASE c.h = "propDone" -> ApplyFrame(c.t, "done", a, "none")
      [] c.h = "propFail" -> ApplyFrame(c.t, "failed", a, "unknown")
      [] c.h = "propCancel" -> ApplyFrame(c.t, "cancelled", "none", "none")
      [] c.h = "cancelInner" -> ApplyFrame(c.t, "cancelled", "none", "none")

Wired(c, a) ==
    CASE c.h = "propDone" -> ApplyFrame(c.t, "done", a, "none")
      [] c.h = "propFail" -> ApplyFrame(c.t, "failed", a, "unknown")
      [] c.h = "propCancel" -> ApplyFrame(c.t, "failed", "cancelled", "unknown")
      [] c.h = "cancelInner" -> ApplyFrame(c.t, "cancelled", "none", "none")

\* code(f.value()) and its siblings: the second read of state_ is value()'s or
\* failure_reason()'s own guard, which throws when the state has moved on.
filter_call(t) ==
    /\ Running(t) /\ Top(t).op = "inv" /\ Top(t).pc = "call"
    /\ Top(t).c.k \in {"on_done", "on_fail", "on_cancel"}
    /\ LET c == Top(t).c
           a == Argument(c.k, Top(t).f)
       IN IF ArgumentThrows(c.k, Top(t).f)
          THEN /\ Raise(t, "runtime_error", a, chain)
               /\ UNCHANGED hist
          ELSE /\ IF c.h = "user"
                  THEN Step(t, Popped(t), chain)
                  ELSE Step(t, Replaced(t, Wired(c, a)), chain)
               /\ hist' = Handled(c, a)
               /\ UNCHANGED crashed
    /\ UNCHANGED <<scen, comb, futvars, calls, first, ext, rd>>

\* ---------------------------------------------------------------- then
\* auto f = future_type::create_shared(); call_when_ready([f, ok, err](me){..});
\* return f.  err is nullptr unless the caller supplies it.
then(t, err) ==
    /\ scen = "chain" /\ t = "t1" /\ ~chain.called /\ Idle(t)
    /\ Registering(t, "S", Closure("then", IF err THEN "err" ELSE "noerr", "O", NoId), <<>>,
                   [chain EXCEPT !.called = TRUE, !.err = err])
    /\ calls' = [calls EXCEPT ![t] = @ + 1]

InThen(t) == Running(t) /\ Top(t).op = "inv" /\ Top(t).c.k = "then"

\* Line 275: if(f->is_ready()) return;
\* The test left out.
OuterNeverReady(fr) == FALSE
OuterReady(fr) == is_ready(fr.c.t)

then_ready_check(t) ==
    /\ InThen(t) /\ Top(t).pc = "start"
    /\ LET saw == [chain EXCEPT !.seen = state_[Top(t).c.t]]
       IN IF OuterReady(Top(t))
          THEN Step(t, Popped(t), [saw EXCEPT !.ran = "skipped"])
          ELSE Step(t, Replaced(t, [Top(t) EXCEPT !.pc = "isdone"]), [saw EXCEPT !.ran = "entered"])
    /\ UNCHANGED <<scen, comb, futvars, calls, crashed, first, ext, hist, rd>>

\* Line 302: f->fail("cancelled") for a cancelled source.
\* The source's cancellation passed on as a cancellation of the outer.
SourceCancelledUp(fr) == ApplyFrame(fr.c.t, "cancelled", "none", "none")
SourceCancelled(fr) == ApplyFrame(fr.c.t, "failed", "cancelled", "unknown")

\* Lines 276, 285, 286, 301: me.is_done() / me.is_failed() / me.is_cancelled(),
\* one read of state_ each; the cancelled branch calls f->fail("cancelled").
then_state_check(t) ==
    /\ InThen(t) /\ Top(t).pc \in {"isdone", "isfailed", "iscancelled"}
    /\ LET fr == Top(t)
           to(pc) == Step(t, Replaced(t, [fr EXCEPT !.pc = pc]), chain)
       IN CASE fr.pc = "isdone" ->
                 IF is_done(fr.f) THEN to("value") ELSE to("isfailed")
            [] fr.pc = "isfailed" ->
                 IF is_failed(fr.f)
                 THEN (IF fr.c.h = "err" THEN to("reason_err") ELSE to("reason_fail"))
                 ELSE to("iscancelled")
            [] fr.pc = "iscancelled" ->
                 IF is_cancelled(fr.f)
                 THEN Step(t, Calling(t, "end", SourceCancelled(fr)), chain)
                 ELSE Step(t, Popped(t), chain)
    /\ UNCHANGED <<scen, comb, futvars, calls, crashed, first, ext, hist, rd>>

\* Lines 279-280 and 288-289: ok(me.value()) or err(me.failure_reason()); the
\* handler returns the inner future G, or throws; on return the first link of
\* the wiring, inner->on_done([f](v){ f->done(v); }), is made.
then_call_handler(t) ==
    /\ InThen(t) /\ Top(t).pc \in {"value", "reason_err"}
    /\ LET fr == Top(t)
           which == IF fr.pc = "value" THEN "on_done" ELSE "on_fail"
           called == IF fr.pc = "value" THEN [chain EXCEPT !.ok_calls = @ + 1]
                     ELSE [chain EXCEPT !.err_calls = @ + 1]
       IN IF ArgumentThrows(which, fr.f)
          THEN Raise(t, "runtime_error", Argument(which, fr.f), chain)
          ELSE \E out \in {"returns"} \cup ExKind :
                 IF out = "returns"
                 THEN /\ Step(t, Calling(t, "w_fail",
                                 CwrFrame("G", Closure("on_done", "propDone", fr.c.t, NoId))),
                              [called EXCEPT !.inner = TRUE])
                      /\ UNCHANGED crashed
                 ELSE Raise(t, out, HandlerMsg, [called EXCEPT !.thrown = out])
    /\ UNCHANGED <<scen, comb, futvars, calls, first, ext, hist, rd>>

\* Lines 281-284: ->on_fail([f](msg){ f->fail(msg); })
\* ->on_cancel([f](){ f->fail("cancelled"); }); then
\* f->on_cancel([inner](){ inner->cancel(); }).
then_wire(t) ==
    /\ InThen(t) /\ Top(t).pc \in {"w_fail", "w_cancel", "w_outer"}
    /\ LET fr == Top(t)
       IN CASE fr.pc = "w_fail" ->
                 Step(t, Calling(t, "w_cancel",
                          CwrFrame("G", Closure("on_fail", "propFail", fr.c.t, NoId))), chain)
            [] fr.pc = "w_cancel" ->
                 Step(t, Calling(t, "w_outer",
                          CwrFrame("G", Closure("on_cancel", "propCancel", fr.c.t, NoId))), chain)
            [] fr.pc = "w_outer" ->
                 Step(t, Calling(t, "end",
                          CwrFrame(fr.c.t, Closure("on_cancel", "cancelInner", "G", NoId))), chain)
    /\ UNCHANGED <<scen, comb, futvars, calls, crashed, first, ext, hist, rd>>

\* Lines 296-299: f->fail(me.failure_reason(), "chained future").
\* The source's reason dropped on the way.
GiveUpCancelled(fr) == ApplyFrame(fr.c.t, "failed", "cancelled", "unknown")
GiveUp(fr) == ApplyFrame(fr.c.t, "failed", FailureReasonOf(fr.f), "chained future")

then_give_up(t) ==
    /\ InThen(t) /\ Top(t).pc = "reason_fail"
    /\ LET fr == Top(t)
       IN IF FailureThrows(fr.f)
          THEN Raise(t, "runtime_error", FailureReasonOf(fr.f), chain)
          ELSE /\ Step(t, Calling(t, "end", GiveUp(fr)), chain)
               /\ UNCHANGED crashed
    /\ UNCHANGED <<scen, comb, futvars, calls, first, ext, hist, rd>>

\* The handler's closing brace, reached from the try block or a catch clause.
then_return(t) ==
    /\ InThen(t) /\ Top(t).pc \in {"end", "caught"}
    /\ Step(t, Popped(t), chain)
    /\ UNCHANGED <<scen, comb, futvars, calls, crashed, first, ext, hist, rd>>

\* ------------------------------------------------- needs_all and needs_any
\* The lambda `code` of lines 512, 532, 553, 592, 612: t is the result future f
\* it captured; h says whether it counts the shared `pending` down (the vector
\* and variadic needs_all) or resolves f on the first input ("plain").
Code(h, t) == Closure("needs", h, t, NoId)

\* The overloads: needs_x(), needs_x(first), needs_x(vector) with a vector of
\* zero to Len(Inputs) futures, needs_x(first, rest...) with two futures.
Overloads ==
    {<<"noargs", 0>>, <<"single", 1>>, <<"variadic", 2>>}
        \cup {<<"vector", n>> : n \in 0..Len(Inputs)}

\* Which lambda an overload builds: only needs_all(vector) and
\* needs_all(first, rest...) count; needs_any(first) is needs_all(first).
Counts(kind, form) == kind = "all" /\ form \in {"vector", "variadic"}
Lambda(kind, form) == IF Counts(kind, form) THEN "count" ELSE "plain"

\* The on_ready registrations an overload makes, in the order it makes them.
\* Both variadic overloads begin with remainder = needs_all(rest...), which for
\* one remaining future is needs_all(first) on a future of its own (R).
Plan(kind, form, n) ==
    CASE form = "noargs" -> <<>>
      [] form = "single" -> << [on |-> Inputs[1], c |-> Code("plain", "O")] >>
      [] form = "vector" ->
            [i \in 1..n |-> [on |-> Inputs[i], c |-> Code(Lambda(kind, form), "O")]]
      [] form = "variadic" ->
            << [on |-> Inputs[2], c |-> Code("plain", "R")],
               [on |-> Inputs[1], c |-> Code(Lambda(kind, form), "O")],
               [on |-> "R", c |-> Code(Lambda(kind, form), "O")] >>

\* std::atomic<int>(first.size()) (line 531), std::atomic<int>(2) (line 552).
Pending(kind, form, n) ==
    IF ~Counts(kind, form) THEN 0 ELSE IF form = "vector" THEN n ELSE 2

\* The call of a combinator: its frame holds the registrations still to make.
NeedsFrame(todo) ==
    [NoFrame EXCEPT !.op = "needs", !.f = "O", !.pc = "reg", !.pend = todo]

\* needs_all() is f->done(0), needs_any() is f->fail("no elements").
Degenerate(kind) ==
    IF kind = "all" THEN ApplyFrame("O", "done", Zero, "none")
    ELSE ApplyFrame("O", "failed", "no elements", "unknown")

Needs(t, kind, form, n) ==
    /\ scen = "comb" /\ t = "t1" /\ ~comb.called /\ Idle(t)
    /\ <<form, n>> \in Overloads
    /\ comb' = [called |-> TRUE, ret |-> FALSE, kind |-> kind, form |-> form,
                n |-> n, pending |-> Pending(kind, form, n)]
    /\ stack' = [stack EXCEPT ![t] =
                   IF form = "noargs" THEN << NeedsFrame(<<>>), Degenerate(kind) >>
                   ELSE << NeedsFrame(Plan(kind, form, n)) >>]
    /\ calls' = [calls EXCEPT ![t] = @ + 1]
    /\ UNCHANGED <<scen, futvars, crashed, chain, first, ext, hist, rd>>

needs_all(t, form, n) == Needs(t, "all", form, n)
needs_any(t, form, n) == Needs(t, "any", form, n)

\* it->on_ready(code): lines 520, 541, 561-562, 601, 620-621.
needs_register(t) ==
    /\ Running(t) /\ Top(t).op = "needs" /\ Top(t).pend # <<>>
    /\ LET r == Head(Top(t).pend)
           below == Replaced(t, [Top(t) EXCEPT !.pend = Tail(Top(t).pend)])
       IN Registering(t, r.on, r.c, below, chain)
    /\ UNCHANGED calls

\* return f;
needs_return(t) ==
    /\ Running(t) /\ Top(t).op = "needs" /\ Top(t).pend = <<>>
    /\ Step(t, Popped(t), chain)
    /\ comb' = [comb EXCEPT !.ret = TRUE]
    /\ UNCHANGED <<scen, futvars, calls, crashed, first, ext, hist, rd>>

InNeeds(t) == Running(t) /\ Top(t).op = "inv" /\ Top(t).c.k = "needs"

\* if(f->is_ready()) return;
needs_ready_check(t) ==
    /\ InNeeds(t) /\ Top(t).pc = "start"
    /\ IF is_ready(Top(t).c.t)
       THEN Step(t, Popped(t), chain)
       ELSE Step(t, Replaced(t, [Top(t) EXCEPT !.pc = "isdone"]), chain)
    /\ UNCHANGED <<scen, comb, futvars, calls, crashed, first, ext, hist, rd>>

\* if(!in.is_done()) { f->fail("error"); return; } and, in the lambdas that do
\* not count, f->done(0).
needs_input_check(t) ==
    /\ InNeeds(t) /\ Top(t).pc = "isdone"
    /\ LET fr == Top(t)
       IN IF ~is_done(fr.f)
          THEN Step(t, Replaced(t, ApplyFrame(fr.c.t, "failed", "error", "unknown")), chain)
          ELSE IF fr.c.h = "count"
               THEN Step(t, Replaced(t, [fr EXCEPT !.pc = "dec"]), chain)
               ELSE Step(t, Replaced(t, ApplyFrame(fr.c.t, "done", Zero, "none")), chain)
    /\ UNCHANGED <<scen, comb, futvars, calls, crashed, first, ext, hist, rd>>

\* if(!--(*pending)) f->done(0);  left is what the atomic decrement returned.
\* The test left out: done on the first input that is done.
AnyOne(left) == TRUE
LastOne(left) == left = 0

needs_countdown(t) ==
    /\ InNeeds(t) /\ Top(t).pc = "dec"
    /\ LET fr == Top(t)
           left == comb.pending - 1
       IN /\ comb' = [comb EXCEPT !.pending = left]
          /\ IF LastOne(left)
             THEN Step(t, Replaced(t, ApplyFrame(fr.c.t, "done", Zero, "none")), chain)
             ELSE Step(t, Popped(t), chain)
    /\ UNCHANGED <<scen, futvars, calls, crashed, first, ext, hist, rd>>

\* ------------------------------------------- re-entrant continuations
\* on_ready(code) with user code that calls back into the future it is handed
\* (future<T> &f): f.done(v), f.cancel(), or f.on_ready(more).
Reentry == {"done", "cancel", "on_ready"}

on_ready_reentrant(t, f, h) ==
    LET id == <<t, calls[t] + 1>>
    IN /\ scen = "reent" /\ Allowed(t, f) /\ Idle(t)
       /\ Registering(t, f, Closure("reenter", h, "none", id), <<>>, chain)
       /\ calls' = [calls EXCEPT ![t] = @ + 1]

\* The call the user code makes on the future it runs for.
Reentered(fr) ==
    CASE fr.c.h = "done" -> ApplyFrame(fr.f, "done", "v1", "none")
      [] fr.c.h = "cancel" -> ApplyFrame(fr.f, "cancelled", "none", "none")
      [] fr.c.h = "on_ready" -> CwrFrame(fr.f, Closure("ready", "user", "none", NoId))

reenter(t) ==
    /\ Running(t) /\ Top(t).op = "inv" /\ Top(t).c.k = "reenter"
    /\ Step(t, Replaced(t, Reentered(Top(t))), chain)
    /\ UNCHANGED <<scen, comb, futvars, calls, crashed, first, ext, hist, rd>>

\* ------------------------------------------------------- the specification
Next ==
    \E t \in Thread :
        \/ \E f \in Fut : \E v \in Val : done(t, f, v)
        \/ \E f \in Fut : \E r \in Reason : fail(t, f, r)
        \/ \E f \in Fut : cancel(t, f)
        \/ \E f \in Fut : on_ready(t, f)
        \/ \E f \in Fut : on_done(t, f)
        \/ \E f \in Fut : on_fail(t, f)
        \/ \E f \in Fut : on_cancel(t, f)
        \/ \E f \in Fut : value(t, f)
        \/ \E f \in Fut : failure_reason(t, f)
        \/ \E err \in BOOLEAN : then(t, err)
        \/ apply_state_lock(t)
        \/ apply_state_set(t)
        \/ apply_state_run(t)
        \/ call_when_ready(t)
        \/ filter_check(t)
        \/ filter_call(t)
        \/ then_ready_check(t)
        \/ then_state_check(t)
        \/ then_call_handler(t)
        \/ then_wire(t)
        \/ then_give_up(t)
        \/ then_return(t)

Spec == Init /\ [][Next]_vars

\* The combinator program: one needs_all or needs_any call over S and G, their
\* owners resolving them once each, the holder of the result cancelling it.
CombInit == Start({"comb"})

CombNext ==
    \E t \in Thread :
        \/ \E f \in Fut : \E v \in Val : done(t, f, v)
        \/ \E f \in Fut : \E r \in Reason : fail(t, f, r)
        \/ \E f \in Fut : cancel(t, f)
        \/ \E ov \in Overloads : needs_all(t, ov[1], ov[2])
        \/ \E ov \in Overloads : needs_any(t, ov[1], ov[2])
        \/ needs_register(t)
        \/ needs_return(t)
        \/ needs_ready_check(t)
        \/ needs_input_check(t)
        \/ needs_countdown(t)
        \/ apply_state_lock(t)
        \/ apply_state_set(t)
        \/ apply_state_run(t)

CombSpec == CombInit /\ [][CombNext]_vars

\* The re-entrant program: contexts resolve S and register continuations on it
\* that call back into S.  A context that is inside a call goes on running
\* (each thread is scheduled again and again); starting a call is up to it.
ReentInit == Start({"reent"})

Proceed(t) ==
    \/ apply_state_lock(t)
    \/ apply_state_set(t)
    \/ apply_state_run(t)
    \/ call_when_ready(t)
    \/ reenter(t)

ReentNext ==
    \E t \in Thread :
        \/ \E f \in Fut : \E v \in Val : done(t, f, v)
        \/ \E f \in Fut : \E r \in Reason : fail(t, f, r)
        \/ \E f \in Fut : cancel(t, f)
        \/ \E f \in Fut : \E h \in Reentry : on_ready_reentrant(t, f, h)
        \/ Proceed(t)

ReentSpec ==
    /\ ReentInit /\ [][ReentNext]_vars
    /\ \A t \in Thread : WF_vars(Proceed(t))

\* ------------------------------------------------------------- the claims
Quiet == \A t \in Thread : stack[t] = <<>>
Unbroken == \A t \in Thread : crashed[t] = NoCrash

\* C1: only the first resolving call takes effect: once a future has left
\* pending, no step changes its state, its stored value or its stored failure.
FirstResolutionOnly ==
    [][\A f \in Fut : state_[f] # "pending" =>
          /\ state_'[f] = state_[f]
          /\ value_'[f] = value_[f]
          /\ ex_'[f] = ex_[f]]_vars

\* How often continuation id sits in a queue / in a batch a resolving call has
\* drained and not yet invoked.
Count(q, id) == Cardinality({i \in 1..Len(q) : q[i].id = id})
InQueue(id) == Count(tasks_["S"], id)
InBatch(id) ==
    Cardinality(UNION { UNION { { <<t, i, j>> :
                                    j \in {k \in DOMAIN stack[t][i].pend :
                                              stack[t][i].pend[k].id = id} } :
                                i \in DOMAIN stack[t] } :
                        t \in Thread })

\* C2: exactly-once delivery under races: every on_ready continuation is
\* invoked at most once in all, never both inline and from a batch; one that
\* was queued is, at every moment, in exactly one place (the queue of the
\* still pending future, the batch a resolving call drained, or already
\* invoked), and one that was not queued was invoked by its registering call.
\* (An exception that leaves a batch abandons the rest of it; on_ready
\* continuations and the resolving calls raise none.)
ExactlyOnceDelivery ==
    \A id \in CId :
        LET h == hist[id]
        IN h.k = "ready" =>
             /\ h.nb + h.ni <= 1
             /\ h.hn = h.nb + h.ni
             /\ h.path = "inline" => h.ni = 1 /\ InQueue(id) + InBatch(id) = 0
             /\ h.path = "queued" /\ Unbroken =>
                  /\ h.nb + InQueue(id) + InBatch(id) = 1
                  /\ InQueue(id) = 1 => state_["S"] = "pending"

\* Two contexts registered on_ready on S around another context's resolving
\* call: one was queued and ran in the batch, one came after and ran inline.
ExactlyOnceWitness ==
    /\ scen = "basic" /\ Quiet /\ ext["S"] = 1
    /\ \E a \in CId, b \in CId :
          /\ a[1] # b[1]
          /\ hist[a].k = "ready" /\ hist[a].path = "queued" /\ hist[a].nb = 1
          /\ hist[b].k = "ready" /\ hist[b].path = "inline" /\ hist[b].ni = 1

\* C3: registration timing: a continuation registered while the future is
\* pending is queued and not invoked by the registering call; one registered
\* when the future is terminal is invoked by the registering call and is never
\* queued; either way it is invoked at most once, with the future it was
\* registered on, and when the future was resolved by one call the user's
\* handlers of one kind all receive the same argument.
RegistrationTiming ==
    /\ \A id \in CId :
          LET h == hist[id]
          IN h.path # "none" =>
               /\ h.at = "pending" <=> h.path = "queued"
               /\ h.path = "queued" => h.ni = 0
               /\ h.path = "inline" => h.ni = 1 /\ h.nb = 0 /\ InQueue(id) + InBatch(id) = 0
               /\ h.nb + h.ni <= 1
               /\ h.nb + h.ni = 1 => h.carg = "S"
    /\ ext["S"] = 1 =>
          \A a \in CId, b \in CId :
              hist[a].k = hist[b].k /\ hist[a].hn > 0 /\ hist[b].hn > 0
                  => hist[a].harg = hist[b].harg /\ hist[a].hn = 1

\* on_done registered before the resolution (queued, run by done's batch) and
\* on_done registered after it (run inline): both handlers got the value.
RegistrationTimingWitness ==
    /\ Quiet
    /\ \E a \in CId, b \in CId :
          /\ hist[a].k = "on_done" /\ hist[a].at = "pending" /\ hist[a].hn = 1
          /\ hist[b].k = "on_done" /\ hist[b].at = "done" /\ hist[b].hn = 1
          /\ hist[a].harg = hist[b].harg

\* The registration's continuation has been invoked and has returned.
Delivered(id) ==
    /\ hist[id].nb + hist[id].ni > 0
    /\ \A t \in Thread : \A i \in 1..Len(stack[t]) : stack[t][i].c.id # id

\* C4: filtered registration: the on_done handler runs with the resolved value
\* when and only when the future resolves done, the on_fail handler with the
\* reason when and only when it resolves failed, the on_cancel handler when and
\* only when it resolves cancelled, on_ready for any resolution; whatever
\* resolving calls are interleaved.  The resolution is the first resolving call's.
FilteredRegistration ==
    \A id \in CId :
        LET h == hist[id]
            e == first["S"]
            want == CASE h.k = "on_done" -> "done"
                      [] h.k = "on_fail" -> "failed"
                      [] h.k = "on_cancel" -> "cancelled"
                      [] OTHER -> e.s
        IN h.k # "none" /\ scen = "basic" =>
             /\ h.hn > 0 => e.s = want
             /\ h.hn > 0 /\ h.k \in {"on_done", "on_fail"} => h.harg = e.arg
             /\ Delivered(id) /\ e.s = want => h.hn = 1

\* C5: state-guarded reads: value() returns the value of the effective done(v)
\* when the future is done and raises the invalid-state error otherwise;
\* failure_reason() returns the stored reason when the future is failed and
\* raises otherwise.
GuardedReads ==
    /\ rd.op = "value" =>
          rd.res = IF rd.eff.s = "done" THEN rd.eff.arg ELSE "future is not complete"
    /\ rd.op = "failure_reason" =>
          rd.res = IF rd.eff.s = "failed" THEN rd.eff.arg ELSE "future is not failed"

\* C6: then mirrors the handler's future: once onSuccess or onFailure has
\* returned g, with the outer future resolved by nobody directly and g resolved
\* by one call, the outer is pending while g is, and ends done(x) for g
\* done(x), failed(m) for g failed(m), failed("cancelled") for g cancelled.
ThenMirrorsInner ==
    chain.inner /\ ext["O"] = 0 /\ ext["G"] <= 1 =>
        /\ state_["G"] = "pending" => state_["O"] = "pending"
        /\ Quiet /\ state_["G"] = "done" =>
              state_["O"] = "done" /\ value_["O"] = value_["G"]
        /\ Quiet /\ state_["G"] = "failed" =>
              state_["O"] = "failed" /\ ex_["O"].reason = ex_["G"].reason
        /\ Quiet /\ state_["G"] = "cancelled" =>
              state_["O"] = "failed" /\ ex_["O"].reason = "cancelled"

\* The source failed, onFailure returned g, g's owner resolved it done(v2):
\* the outer is done with g's value.
ThenMirrorsInnerWitness ==
    /\ chain.inner /\ chain.err_calls = 1 /\ ext["O"] = 0 /\ ext["G"] = 1 /\ Quiet
    /\ state_["S"] = "failed"
    /\ state_["G"] = "done" /\ state_["O"] = "done" /\ value_["O"] = "v2"

\* C7 as stated: then without onFailure: when the source resolves failed with
\* reason r, the outer future resolves failed with r and onSuccess is never
\* invoked.
ThenPropagatesFailure ==
    /\ chain.called /\ ~chain.err /\ Quiet
    /\ ext["S"] = 1 /\ first["S"].s = "failed"
    => /\ first["O"].s = "failed" /\ first["O"].arg = first["S"].arg
       /\ chain.ok_calls = 0

\* C7 as amended: ... provided nobody resolves the outer future directly: then
\* the outer is failed with the source's reason, tagged "chained future".
ThenPropagatesFailureUndisturbed ==
    /\ chain.called /\ ~chain.err /\ Quiet
    /\ ext["S"] = 1 /\ first["S"].s = "failed"
    /\ ext["O"] = 0
    => /\ state_["O"] = "failed"
       /\ ex_["O"] = future_exception(ex_["S"].reason, "chained future")
       /\ chain.ok_calls = 0

ThenPropagatesFailureWitness ==
    /\ chain.called /\ ~chain.err /\ Quiet /\ ext["O"] = 0
    /\ ext["S"] = 1 /\ state_["S"] = "failed" /\ ex_["S"].reason = "r1"
    /\ state_["O"] = "failed" /\ ex_["O"].reason = "r1"

\* C8: an error onSuccess or onFailure raises becomes a failure of the outer
\* future with the error's message; it does not leave the resolving call, and
\* the continuations queued on the source after then's still run.
HandlerErrorBecomesFailure ==
    chain.thrown # "none" =>
        /\ \A t \in Thread : crashed[t].call # "resolve"
        /\ Quiet /\ ext["O"] = 0 =>
              state_["O"] = "failed" /\ ex_["O"].reason = HandlerMsg
        /\ Quiet => \A id \in CId : hist[id].path = "queued" /\ is_ready("S")
                                        => hist[id].nb = 1

\* C9: an inner resolution that arrives when the outer is already terminal is
\* discarded: an outer future its holder resolved first (cancelled it, say),
\* with every future resolved at most once from outside, keeps that state.
LateArrivalDiscarded ==
    /\ ext["S"] <= 1 /\ ext["G"] <= 1 /\ ext["O"] = 1
    /\ chain.inner
    /\ first["O"].by = "ext" /\ is_ready("O")
    => state_["O"] = first["O"].s

\* C10: cancelling the outer future leaves an inner future that has already
\* resolved as it is: an inner future its owner resolved keeps that state.
ResolvedInnerKept ==
    /\ ext["S"] <= 1 /\ ext["G"] = 1 /\ ext["O"] <= 1
    /\ first["G"].by = "ext" /\ is_ready("G")
    => state_["G"] = first["G"].s

\* C11: cancellation never travels upward as cancellation.  The outer future
\* of then() becomes cancelled only in a cancel() its holder calls on it
\* directly; a source that resolved cancelled and an inner future that resolved
\* cancelled each leave the outer failed with reason "cancelled".
FailedCancelled(f) ==
    is_failed(f) /\ ex_[f] = future_exception("cancelled", "unknown")

DirectCancel(t, f) ==
    /\ Len(stack[t]) = 1
    /\ stack[t][1].op = "apply" /\ stack[t][1].f = f /\ stack[t][1].s = "cancelled"
    /\ mutex_[f] = t

CancellationNeverTravelsUp ==
    /\ [](scen = "chain" =>
            /\ ext["O"] = 0 => ~is_cancelled("O")
            /\ (/\ Quiet /\ chain.called /\ ext["O"] = 0
                /\ ext["S"] = 1 /\ first["S"].s = "cancelled") => FailedCancelled("O")
            /\ (/\ Quiet /\ chain.inner /\ ext["O"] = 0
                /\ ext["G"] = 1 /\ first["G"].s = "cancelled") => FailedCancelled("O"))
    /\ [][(scen = "chain" /\ ~is_cancelled("O") /\ state_'["O"] = "cancelled")
            => \E t \in Thread : DirectCancel(t, "O")]_vars

CancellationNeverTravelsUpWitness ==
    /\ scen = "chain" /\ Quiet /\ chain.inner /\ ext["O"] = 0
    /\ ext["G"] = 1 /\ first["G"].s = "cancelled"
    /\ FailedCancelled("O")

\* C18: the queue invariant.  Whenever nobody is inside the critical section
\* of a future, its continuation queue is non-empty only if it is pending; the
\* step that takes it out of pending leaves the queue empty, and a continuation
\* is appended only to the queue of a pending future.
QueueInvariant ==
    /\ [](\A f \in Fut :
            mutex_[f] = "free" /\ tasks_[f] # <<>> => state_[f] = "pending")
    /\ [][\A f \in Fut :
            /\ state_[f] = "pending" /\ state_'[f] # "pending" => tasks_'[f] = <<>>
            /\ Len(tasks_'[f]) > Len(tasks_[f]) => state_[f] = "pending"]_vars

QueueInvariantWitness ==
    /\ is_ready("S") /\ mutex_["S"] = "free" /\ tasks_["S"] = <<>>
    /\ \E a, b \in CId : hist[a].path = "queued" /\ hist[b].path = "inline"

\* C19: a chain whose outer future is already terminal when the source's
\* resolution reaches the handler of then() (line 275 reads it as ready) runs
\* neither onSuccess nor onFailure, creates and wires no inner future, and
\* makes no resolving call on the outer: the outer stays as its holder made it.
WiringOf(c) == c.h \in {"propDone", "propFail", "propCancel", "cancelInner"}

NothingWired ==
    /\ \A f \in Fut : \A i \in DOMAIN tasks_[f] : ~WiringOf(tasks_[f][i])
    /\ \A t \in Thread : \A i \in DOMAIN stack[t] :
          /\ ~WiringOf(stack[t][i].c)
          /\ stack[t][i].op = "apply" /\ stack[t][i].f = "O" => t = "t3" /\ i = 1

CancelledChainSkipsHandlers ==
    scen = "chain" /\ chain.seen \notin {"none", "pending"} =>
        /\ chain.ran = "skipped"
        /\ chain.ok_calls = 0 /\ chain.err_calls = 0
        /\ ~chain.inner /\ chain.thrown = "none"
        /\ NothingWired
        /\ first["O"].by = "ext"
        /\ ext["O"] = 1 => state_["O"] = chain.seen

CancelledChainWitness ==
    /\ scen = "chain" /\ Quiet /\ chain.ran = "skipped"
    /\ is_done("S") /\ is_cancelled("O") /\ ext["O"] = 1

\* C20: dispatch order.  Continuations queued on a pending future are invoked
\* by the resolving call in the order of their push_back, and when that call
\* has left its loop (no exception having cut it short) all of them have run.
Queued(a) == hist[a].path = "queued"

InLoop(f) ==
    \E t \in Thread : \E i \in DOMAIN stack[t] :
        stack[t][i].op = "apply" /\ stack[t][i].f = f /\ stack[t][i].pc = "run"

DispatchOrder ==
    /\ \A a, b \in CId :
          Queued(a) /\ Queued(b) /\ hist[a].pos < hist[b].pos /\ hist[b].nb >= 1
              => hist[a].nb >= 1
    /\ \A a \in CId : Queued(a) => hist[a].nb <= 1
    /\ is_ready("S") /\ ~InLoop("S") /\ Unbroken =>
          \A a \in CId : Queued(a) => hist[a].nb = 1

DispatchOrderWitness ==
    /\ Quiet /\ is_ready("S")
    /\ \E a, b \in CId :
          /\ Queued(a) /\ Queued(b) /\ hist[a].pos = 1 /\ hist[b].pos = 2
          /\ hist[a].nb = 1 /\ hist[b].nb = 1

\* ---------------------------------------------- the claims on combinators
\* The inputs of the combinator call, and who resolves which.
Given == {Inputs[i] : i \in 1..comb.n}
Owner(f) == IF f = "S" THEN "t1" ELSE "t2"
\* An input has resolved and the combinator has seen it: needs_x has returned
\* (every registration is made) and the input's resolving call is over.
Settled(f) == comb.ret /\ is_ready(f) /\ stack["t1"] = <<>> /\ stack[Owner(f)] = <<>>
NotDone(f) == state_[f] \in {"failed", "cancelled"}
FailedError(f) == is_failed(f) /\ ex_[f] = future_exception("error", "unknown")

\* C12: the needs_all outcome rule.  With one or more inputs and nobody
\* resolving the result directly: the result is done only when every input is
\* done, failed (reason "error") only when some input is failed or cancelled,
\* never cancelled; it is failed as soon as one input has resolved failed or
\* cancelled, whatever the others do, and done once all have resolved done.
NeedsAllOutcome ==
    scen = "comb" /\ comb.kind = "all" /\ comb.n >= 1 /\ ext["O"] = 0 =>
        /\ is_done("O") => value_["O"] = Zero /\ \A f \in Given : is_done(f)
        /\ is_failed("O") => FailedError("O") /\ \E f \in Given : NotDone(f)
        /\ ~is_cancelled("O")
        /\ (\E f \in Given : Settled(f) /\ NotDone(f)) => is_failed("O")
        /\ (\A f \in Given : Settled(f) /\ is_done(f)) => is_done("O")

NeedsAllOutcomeWitness ==
    /\ scen = "comb" /\ comb.kind = "all" /\ comb.form = "vector" /\ comb.n = 2
    /\ Quiet /\ ext["O"] = 0 /\ comb.pending = 0
    /\ is_done("S") /\ is_done("G") /\ is_done("O")

\* C13: the needs_any outcome rule.  With two or more inputs and nobody
\* resolving the result directly: the result is done as soon as one input has
\* resolved done, and it is failed only when every input has resolved failed
\* or cancelled.
NeedsAnyOutcome ==
    scen = "comb" /\ comb.kind = "any" /\ comb.n >= 2 /\ ext["O"] = 0 =>
        /\ (\E f \in Given : Settled(f) /\ is_done(f)) => is_done("O")
        /\ is_failed("O") => \A f \in Given : NotDone(f)

\* C14: needs_all over no inputs (no arguments, or an empty vector) has
\* returned a future that is done.
NeedsAllEmpty ==
    scen = "comb" /\ comb.kind = "all" /\ comb.n = 0 /\ comb.ret /\ ext["O"] = 0
        => is_done("O")

\* C15: needs_any over no inputs (no arguments, or an empty vector) has
\* returned a future that is failed with reason "no elements".
NeedsAnyEmpty ==
    scen = "comb" /\ comb.kind = "any" /\ comb.n = 0 /\ comb.ret /\ ext["O"] = 0
        => is_failed("O") /\ ex_["O"] = future_exception("no elements", "unknown")

\* C16: under concurrently resolving inputs (and a holder cancelling the
\* result) the result of a combinator is resolved at most once: once it is
\* terminal, no step of an input's continuation changes its state, its value,
\* its failure or its resolution time.  (t3 is the holder: its steps are the
\* direct cancel() of the result.)
ResultResolvedOnce ==
    [][scen = "comb" /\ is_ready("O") /\ stack'["t3"] = stack["t3"] =>
          /\ state_'["O"] = state_["O"]
          /\ value_'["O"] = value_["O"]
          /\ ex_'["O"] = ex_["O"]
          /\ resolved_'["O"] = resolved_["O"]]_vars

\* C17: no re-entrant deadlock.  A context that is about to invoke a
\* continuation, or has just invoked one, does not hold the mutex of the
\* future the continuation runs for (resolving path and inline registration);
\* so a context never waits for a mutex it holds itself, and every resolving or
\* registering call, whatever its continuations call on the same future, ends.
Invoking(fr) == fr.op = "inv" \/ (fr.op = "apply" /\ fr.pc = "run")
Waiting(fr) == fr.op = "cwr" \/ (fr.op = "apply" /\ fr.pc = "lock")

NoReentrantDeadlock ==
    /\ [](\A t \in Thread :
            Running(t) /\ (Invoking(Top(t)) \/ Waiting(Top(t)))
                => mutex_[Top(t).f] # t)
    /\ \A t \in Thread : Running(t) ~> ~Running(t)

NoReentrantDeadlockWitness ==
    /\ scen = "reent" /\ Quiet
    /\ ext["S"] = 1 /\ first["S"].s = "done" /\ is_cancelled("S")
    /\ \E a, b \in CId :
          /\ hist[a].k = "reenter" /\ hist[a].nb = 1
          /\ hist[b].k = "reenter" /\ hist[b].ni = 1
====
